---------------------------- MODULE Spec2Model ----------------------------
(***************************************************************************)
(* Model of code/Data_Cleaning_and_Aggregation.ipynb: the loader           *)
(* (read_and_preprocess), the aggregator (aggregate_data), the resampler   *)
(* (resample_data), the per-file pipeline (clean_data) and the directory   *)
(* driver (process_files).                                                 *)
(*                                                                         *)
(* Two specifications share the variables:                                 *)
(*   SpecPipeline  the three table stages applied one after the other to   *)
(*                 every small raw table, column selection and frequency;  *)
(*   Spec          process_files run twice over every small source         *)
(*                 directory.                                              *)
(*                                                                         *)
(* Numbers are integers: internet_traffic is a float in the program, and   *)
(* float rounding is outside the model.  Text (file names, paths) is a     *)
(* sequence of one-character strings.  A pandas Timestamp is the record    *)
(* [date, time]: days since the epoch and milliseconds into the day.       *)
(***************************************************************************)
EXTENDS Integers, Sequences, FiniteSets, TLC

VARIABLES
    raw,                \* SpecPipeline: the rows of the raw file being read
    selected_columns,   \* the caller's list of column names
    frequency,          \* the resampling frequency asked for (milliseconds)
    df,                 \* SpecPipeline: the DataFrame the stages hand on
    stage,              \* SpecPipeline: which stage produced df
    fs,                 \* Spec: directory name -> entries, in directory order
    source_folder,      \* Spec: process_files' argument
    destination_folder, \* Spec: process_files' argument
    file_list,          \* Spec: process_files' local
    idx,                \* Spec: position of the for loop in file_list
    pc,                 \* Spec: position in process_files
    printed,            \* Spec: what print() has written, in order
    trace,              \* Spec: per file, the path read and the path written
    run,                \* Spec: 1 during the first run, 2 during the second
    after_first         \* Spec: fs as the first run left it

vars == <<raw, selected_columns, frequency, df, stage, fs, source_folder,
          destination_folder, file_list, idx, pc, printed, trace, run,
          after_first>>

pipelineVars == <<raw, df, stage>>

driverVars == <<fs, source_folder, destination_folder, file_list, idx, pc,
                printed, trace, run, after_first>>

-----------------------------------------------------------------------------
(* Bounds of the model.                                                    *)

MaxRows == 2

MaxFiles == 2

-----------------------------------------------------------------------------
(* Generic helpers.                                                        *)

Range(s) == {s[i] : i \in 1..Len(s)}

RECURSIVE SeqSum(_)
SeqSum(s) == IF s = <<>> THEN 0 ELSE Head(s) + SeqSum(Tail(s))

SeqsUpTo(S, n) == UNION {[1..k -> S] : k \in 0..n}

(* The integers of S in increasing order.                                  *)
RECURSIVE SortedInts(_)
SortedInts(S) ==
    IF S = {} THEN <<>>
    ELSE LET m == CHOOSE x \in S : \A y \in S : x <= y
         IN  <<m>> \o SortedInts(S \ {m})

-----------------------------------------------------------------------------
(* Time.                                                                   *)

MsPerMinute == 60 * 1000

MsPerHour == 60 * MsPerMinute

MsPerDay == 24 * MsPerHour

(* pd.to_datetime(ms, unit="ms")                                           *)
to_datetime(ms) == [date |-> ms \div MsPerDay, time |-> ms % MsPerDay]

(* Timestamp.value, in milliseconds                                        *)
TimestampValue(ts) == ts.date * MsPerDay + ts.time

(* Timestamp.normalize(): midnight of the same day                         *)
normalize(ts) == [date |-> ts.date, time |-> 0]

-----------------------------------------------------------------------------
(* The raw file and the loader.                                            *)

names ==
    <<"square_id", "time_interval", "country_code", "sms_in", "sms_out",
      "call_in", "call_out", "internet_traffic">>

(* A field of a line is <<>> when it is empty in the text, <<v>> otherwise. *)
RawRow(s, t, v) ==
    [c \in Range(names) |->
        CASE c = "square_id"        -> s
          [] c = "time_interval"    -> t
          [] c = "internet_traffic" -> v
          [] c = "country_code"     -> <<39>>
          [] c = "sms_in"           -> <<>>
          [] OTHER                  -> <<1>>]

(* DataFrame.fillna(0) on one cell: NaN becomes 0                          *)
fillna(field) == IF field = <<>> THEN 0 ELSE field[1]

read_in_schema_order(content, columns) ==
    [columns |-> SelectSeq(names, LAMBDA c : c \in Range(columns)),
     rows    |-> [i \in 1..Len(content) |->
                    [c \in Range(columns) |-> fillna(content[i][c])]]]

(* read_and_preprocess(file_path, selected_columns), on the rows of the    *)
(* file at file_path                                                       *)
read_and_preprocess(content, columns) ==
    LET read_csv == [i \in 1..Len(content) |->
                        [c \in Range(names) |-> content[i][c]]]
        filled   == [i \in 1..Len(content) |->
                        [c \in Range(names) |-> fillna(read_csv[i][c])]]
    IN  [columns |-> columns,
         rows    |-> [i \in 1..Len(content) |->
                        [c \in Range(columns) |-> filled[i][c]]]]

-----------------------------------------------------------------------------
(* The aggregator.                                                         *)

(* df.groupby(['square_id', 'time_interval']).sum().reset_index(), then    *)
(* to_datetime on time_interval and set_index('time_interval'): one row    *)
(* per key, keys in increasing order, every other column summed.           *)
aggregate_data(d) ==
    LET value_columns ==
            SelectSeq(d.columns,
                LAMBDA c : c \notin {"square_id", "time_interval"})
        squares == SortedInts({d.rows[i].square_id : i \in 1..Len(d.rows)})
        TimesOf(s) ==
            SortedInts({d.rows[i].time_interval :
                          i \in {j \in 1..Len(d.rows) : d.rows[j].square_id = s}})
        RECURSIVE Keys(_)
        Keys(ss) ==
            IF ss = <<>> THEN <<>>
            ELSE [k \in 1..Len(TimesOf(Head(ss))) |->
                     <<Head(ss), TimesOf(Head(ss))[k]>>]
                 \o Keys(Tail(ss))
        keys == Keys(squares)
        Group(key) ==
            SelectSeq(d.rows,
                LAMBDA r : r.square_id = key[1] /\ r.time_interval = key[2])
        Sum(key, c) ==
            SeqSum([i \in 1..Len(Group(key)) |-> Group(key)[i][c]])
    IN  [index   |-> "time_interval",
         columns |-> <<"square_id">> \o value_columns,
         rows    |-> [k \in 1..Len(keys) |->
                        [c \in Range(d.columns) |->
                            CASE c = "square_id"     -> keys[k][1]
                              [] c = "time_interval" -> to_datetime(keys[k][2])
                              [] OTHER               -> Sum(keys[k], c)]]]

-----------------------------------------------------------------------------
(* The resampler.                                                          *)

(* The frequency strings, as the milliseconds of their Timedelta.          *)
Hour == MsPerHour

Minutes30 == 30 * MsPerMinute

Hours5 == 5 * MsPerHour

(* The default of the parameter frequency of resample_data: 'H'            *)
DefaultFrequency == Hour

(* Resampler's origin='start_day' (the default of DataFrame.resample):     *)
(* bins are counted from midnight of the day of the group's first row.     *)
BinOriginAtFirstRow(first) == TimestampValue(first)
BinOrigin(first) == TimestampValue(normalize(first))

(* closed='left' (the default for a Tick frequency): t falls in the bin    *)
(* labelled b when b <= t < b + freq.                                      *)
InBinRightClosed(t, b, freq) == b < t /\ t <= b + freq
InBin(t, b, freq) == b <= t /\ t < b + freq

(* .loc[lambda x: x>0]                                                     *)
KeepEveryBucket(x) == TRUE
KeepBucket(x) == x > 0

(* The bin labels resample() makes for one group whose rows lie at the     *)
(* times ts (milliseconds, not empty): every bin from the one holding the  *)
(* first row to the one holding the last row, empty bins included, each    *)
(* labelled by its left edge (label='left').                               *)
OneLabelPerRow(ts, freq) ==
    LET sorted == SortedInts(ts)
        origin == BinOrigin(to_datetime(sorted[1]))
    IN  [k \in 1..Len(sorted) |->
            sorted[k] - ((sorted[k] - origin) % freq)]
BinLabels(ts, freq) ==
    LET sorted  == SortedInts(ts)
        first   == sorted[1]
        last    == sorted[Len(sorted)]
        origin  == BinOrigin(to_datetime(first))
        foffset == (first - origin) % freq
        loffset == (last - origin) % freq
        fresult == IF foffset > 0 THEN first - foffset ELSE first
        lresult == IF loffset > 0 THEN last + (freq - loffset)
                                  ELSE last + freq
        nbins   == (lresult - fresult) \div freq
    IN  [k \in 1..nbins |-> fresult + (k - 1) * freq]

(* df.groupby('square_id').resample(frequency)['internet_traffic']         *)
(*   .agg('sum').loc[lambda x: x>0].reset_index()                          *)
resample_data(d, freq) ==
    LET squares == SortedInts({d.rows[i].square_id : i \in 1..Len(d.rows)})
        RowsOf(s) ==
            LET group  == SelectSeq(d.rows, LAMBDA r : r.square_id = s)
                labels == BinLabels({TimestampValue(group[i].time_interval) :
                                        i \in 1..Len(group)}, freq)
                BinSum(b) ==
                    LET inBin == SelectSeq(group,
                                    LAMBDA r :
                                        InBin(TimestampValue(r.time_interval),
                                              b, freq))
                    IN  SeqSum([i \in 1..Len(inBin) |->
                                   inBin[i].internet_traffic])
                all == [k \in 1..Len(labels) |->
                           [square_id        |-> s,
                            time_interval    |-> to_datetime(labels[k]),
                            internet_traffic |-> BinSum(labels[k])]]
            IN  SelectSeq(all, LAMBDA r : KeepBucket(r.internet_traffic))
        RECURSIVE Rows(_)
        Rows(ss) == IF ss = <<>> THEN <<>>
                    ELSE RowsOf(Head(ss)) \o Rows(Tail(ss))
    IN  [columns |-> <<"square_id", "time_interval", "internet_traffic">>,
         rows    |-> Rows(squares)]

-----------------------------------------------------------------------------
(* SpecPipeline: the stages, one after the other, on every small table.    *)

T1005 == 10 * MsPerHour + 5 * MsPerMinute

T1040 == 10 * MsPerHour + 40 * MsPerMinute

NextDay0010 == MsPerDay + 10 * MsPerMinute

(* Square 7 takes every time and traffic field; square 8 fewer, so that    *)
(* tables of several squares stay few.                                     *)
TimeFields == {<<>>, <<T1005>>, <<T1040>>, <<NextDay0010>>}

TrafficFields == {<<>>, <<4>>, <<6>>, <<-4>>}

RawRows ==
    {RawRow(<<7>>, t, v) : t \in TimeFields, v \in TrafficFields}
    \cup {RawRow(<<8>>, t, v) : t \in {<<T1005>>, <<NextDay0010>>},
                               v \in {<<4>>, <<-4>>}}

Frequencies == {Hour, Minutes30, Hours5}

ColumnSelections ==
    {<<"square_id", "time_interval", "internet_traffic">>,
     <<"internet_traffic", "time_interval", "square_id">>}

NoDriver ==
    /\ fs = <<>>
    /\ source_folder = <<>>
    /\ destination_folder = <<>>
    /\ file_list = <<>>
    /\ idx = 0
    /\ pc = "idle"
    /\ printed = <<>>
    /\ trace = <<>>
    /\ run = 0
    /\ after_first = <<>>

PipelineInit ==
    /\ raw \in SeqsUpTo(RawRows, MaxRows)
    /\ selected_columns \in ColumnSelections
    /\ frequency = DefaultFrequency
    /\ df = <<>>
    /\ stage = "raw"
    /\ NoDriver

Load ==
    /\ stage = "raw"
    /\ df' = read_and_preprocess(raw, selected_columns)
    /\ stage' = "loaded"
    /\ UNCHANGED <<raw, selected_columns, frequency, driverVars>>

Aggregate ==
    /\ stage = "loaded"
    /\ df' = aggregate_data(df)
    /\ stage' = "aggregated"
    /\ UNCHANGED <<raw, selected_columns, frequency, driverVars>>

Resample ==
    /\ stage = "aggregated"
    /\ \E f \in Frequencies :
          /\ frequency' = f
          /\ df' = resample_data(df, f)
    /\ stage' = "resampled"
    /\ UNCHANGED <<raw, selected_columns, driverVars>>

PipelineNext == Load \/ Aggregate \/ Resample

SpecPipeline == PipelineInit /\ [][PipelineNext]_vars

-----------------------------------------------------------------------------
(* What the claims about the table stages speak of, stated on the raw rows *)
(* and on the aggregated table without use of resample_data.               *)

Aggregated == aggregate_data(read_and_preprocess(raw, selected_columns))

RawSquare(r) == fillna(r.square_id)

RawTime(r) == fillna(r.time_interval)

RawTraffic(r) == fillna(r.internet_traffic)

(* The sum of internet_traffic over the raw rows of square s at a time t   *)
(* with b <= t < b + f.                                                    *)
RawSumIn(rows, s, b, f) ==
    LET hit == SelectSeq(rows, LAMBDA r : /\ RawSquare(r) = s
                                          /\ b <= RawTime(r)
                                          /\ RawTime(r) < b + f)
    IN  SeqSum([i \in 1..Len(hit) |-> RawTraffic(hit[i])])

RawSum(s, b, f) == RawSumIn(raw, s, b, f)

(* Midnight of the day of the earliest raw row of square s.                *)
StartDay(s) ==
    LET ts == {RawTime(raw[i]) : i \in {j \in 1..Len(raw) : RawSquare(raw[j]) = s}}
        first == CHOOSE t \in ts : \A u \in ts : t <= u
    IN  (first \div MsPerDay) * MsPerDay

(* The bucket of width f, counted from StartDay(s), that holds time t.     *)
BucketOf(s, t, f) == StartDay(s) + ((t - StartDay(s)) \div f) * f

RowsOfSquare(rows, s) == SelectSeq(rows, LAMBDA r : r.square_id = s)

TrafficSum(rows) == SeqSum([i \in 1..Len(rows) |-> rows[i].internet_traffic])

(* The sum of the sums of the buckets of square s that are not positive.   *)
NonPositiveBucketSum(s, f) ==
    LET bs == SortedInts({BucketOf(s, RawTime(raw[i]), f) :
                            i \in {j \in 1..Len(raw) : RawSquare(raw[j]) = s}})
        sums == [k \in 1..Len(bs) |-> RawSum(s, bs[k], f)]
        low == SelectSeq(sums, LAMBDA x : x <= 0)
    IN  SeqSum(low)

Squares == {RawSquare(raw[i]) : i \in 1..Len(raw)}

OutRows == {df.rows[i] : i \in 1..Len(df.rows)}

(* C2 as stated: every output row (s, b, v) has b a multiple of the        *)
(* frequency counted from the epoch and v the sum of internet_traffic      *)
(* (missing counted as 0) over the raw rows of s with b <= t < b + f, for  *)
(* every frequency.                                                        *)
C2_EpochBuckets ==
    stage = "resampled" =>
        \A r \in OutRows :
            LET b == TimestampValue(r.time_interval)
            IN  /\ b % frequency = 0
                /\ r.internet_traffic = RawSum(r.square_id, b, frequency)

(* C2 amended: every output row (s, b, v) has b a multiple of the          *)
(* frequency counted from midnight of the day of the earliest row of s,    *)
(* and v the sum of internet_traffic (missing counted as 0) over the raw   *)
(* rows of s with b <= t < b + f; b is a multiple of the frequency counted *)
(* from the epoch whenever the frequency divides a day.                    *)
C2_StartDayBuckets ==
    stage = "resampled" =>
        \A r \in OutRows :
            LET b == TimestampValue(r.time_interval)
            IN  /\ (b - StartDay(r.square_id)) % frequency = 0
                /\ (MsPerDay % frequency = 0 => b % frequency = 0)
                /\ r.internet_traffic = RawSum(r.square_id, b, frequency)

(* C2 witness: square 7 at 10:05 and 10:40 with traffic 4 and 6, resampled *)
(* hourly, gives the single row (7, 10:00, 10).                            *)
C2_Witness ==
    /\ stage = "resampled"
    /\ frequency = Hour
    /\ raw = <<RawRow(<<7>>, <<T1005>>, <<4>>), RawRow(<<7>>, <<T1040>>, <<6>>)>>
    /\ df.rows = <<[square_id |-> 7,
                    time_interval |-> to_datetime(10 * MsPerHour),
                    internet_traffic |-> 10]>>

(* C3 as stated: for every square, the traffic of its output rows sums to  *)
(* the traffic of its aggregated rows (dropping a bucket whose sum is 0    *)
(* changes no sum).                                                        *)
C3_Conservation ==
    stage = "resampled" =>
        LET agg == Aggregated
        IN  \A s \in Squares :
                TrafficSum(RowsOfSquare(df.rows, s))
                    = TrafficSum(RowsOfSquare(agg.rows, s))

(* C3 amended: for every square, the traffic of its output rows sums to    *)
(* the traffic of its aggregated rows less the sums of the buckets whose   *)
(* sum is zero or negative, which are the buckets resampling drops.        *)
C3_ConservationOfPositiveBuckets ==
    stage = "resampled" =>
        LET agg == Aggregated
        IN  \A s \in Squares :
                TrafficSum(RowsOfSquare(df.rows, s))
                    = TrafficSum(RowsOfSquare(agg.rows, s))
                      - NonPositiveBucketSum(s, frequency)

(* C3 witness: a square with rows in two buckets, all of them kept, whose  *)
(* traffic is not zero.                                                    *)
C3_Witness ==
    /\ stage = "resampled"
    /\ Len(raw) = 2
    /\ Len(RowsOfSquare(df.rows, 7)) = 2
    /\ Len(RowsOfSquare(Aggregated.rows, 7)) = 2
    /\ TrafficSum(RowsOfSquare(df.rows, 7)) = 10

(* C4: no output row has internet_traffic 0; a square whose aggregated     *)
(* traffic is 0 in every interval has no output row; and every output row  *)
(* is a bucket that holds an aggregated row (an empty bucket inside the    *)
(* span of a square is not written).                                       *)
C4_ZeroBucketOmission ==
    stage = "resampled" =>
        LET agg == Aggregated.rows
        IN  /\ \A r \in OutRows : r.internet_traffic # 0
            /\ \A s \in Squares :
                  (\A i \in 1..Len(agg) :
                      agg[i].square_id = s => agg[i].internet_traffic = 0)
                  => RowsOfSquare(df.rows, s) = <<>>
            /\ \A r \in OutRows :
                  \E i \in 1..Len(agg) :
                      LET t == TimestampValue(agg[i].time_interval)
                          b == TimestampValue(r.time_interval)
                      IN  /\ agg[i].square_id = r.square_id
                          /\ b <= t
                          /\ t < b + frequency

(* C4 witness: square 7 has rows of zero traffic a day apart, with empty   *)
(* buckets between them, and nothing is written.                           *)
C4_Witness ==
    /\ stage = "resampled"
    /\ raw = <<RawRow(<<7>>, <<T1005>>, <<>>), RawRow(<<7>>, <<NextDay0010>>, <<>>)>>
    /\ df.rows = <<>>

(* C5: no two output rows share both square_id and bucket start.           *)
C5_UniquePairs ==
    stage = "resampled" =>
        \A i, j \in 1..Len(df.rows) :
            (/\ df.rows[i].square_id = df.rows[j].square_id
             /\ df.rows[i].time_interval = df.rows[j].time_interval) => i = j

(* C5 witness: two aggregated rows of one square fall in one bucket and    *)
(* one row is written for them.                                            *)
C5_Witness ==
    /\ stage = "resampled"
    /\ Len(raw) = 2
    /\ Len(Aggregated.rows) = 2
    /\ Aggregated.rows[1].square_id = Aggregated.rows[2].square_id
    /\ Len(df.rows) = 1
    /\ df.rows[1].internet_traffic = 10

(* C7 as stated: the loader returns only the requested columns, in the     *)
(* order of the 8-column schema, whatever order the caller lists them in.  *)
C7_SchemaOrder ==
    stage = "loaded" =>
        /\ df.columns = SelectSeq(names, LAMBDA c : c \in Range(selected_columns))
        /\ \A i \in 1..Len(df.rows) : DOMAIN df.rows[i] = Range(selected_columns)

(* C7 amended: the loader returns only the requested columns, in the order *)
(* the caller lists them in.                                               *)
C7_CallerOrder ==
    stage = "loaded" =>
        /\ df.columns = selected_columns
        /\ \A i \in 1..Len(df.rows) : DOMAIN df.rows[i] = Range(selected_columns)

(* C7 witness: a table is loaded with the columns listed out of schema     *)
(* order.                                                                  *)
C7_Witness ==
    /\ stage = "loaded"
    /\ selected_columns = <<"internet_traffic", "time_interval", "square_id">>
    /\ Len(df.rows) = 2

-----------------------------------------------------------------------------
(* Text, paths and the file system.                                        *)

sep == "/"

extsep == "."

TXT == <<".", "t", "x", "t">>

CSV == <<".", "c", "s", "v">>

CLEANED == <<"c", "l", "e", "a", "n", "e", "d", "-">>

FINISHED == <<" ", "f", "i", "n", "i", "s", "h", "e", "d", " ", "\n">>

(* str.endswith                                                            *)
endswith(s, suffix) ==
    /\ Len(s) >= Len(suffix)
    /\ SubSeq(s, Len(s) - Len(suffix) + 1, Len(s)) = suffix

(* str.rfind, counting from 1; 0 when ch does not occur                    *)
rfind(s, ch) ==
    LET at == {i \in 1..Len(s) : s[i] = ch}
    IN  IF at = {} THEN 0 ELSE CHOOSE i \in at : \A j \in at : j <= i

(* os.path.splitext: the extension starts at the last dot of the last      *)
(* path component, unless only dots come before it in that component.      *)
splitext(p) ==
    LET sepIndex == rfind(p, sep)
        dotIndex == rfind(p, extsep)
    IN  IF /\ dotIndex > sepIndex
           /\ \E k \in (sepIndex + 1)..(dotIndex - 1) : p[k] # extsep
        THEN <<SubSeq(p, 1, dotIndex - 1), SubSeq(p, dotIndex, Len(p))>>
        ELSE <<p, <<>>>>

(* os.path.join(a, b)                                                      *)
join(a, b) ==
    IF b # <<>> /\ Head(b) = sep THEN b
    ELSE IF a = <<>> \/ a[Len(a)] = sep THEN a \o b
    ELSE a \o <<sep>> \o b

(* The directory and the entry a path names.                               *)
DirOf(path) == SubSeq(path, 1, rfind(path, sep) - 1)

NameOf(path) == SubSeq(path, rfind(path, sep) + 1, Len(path))

(* A directory is the sequence of its entries [name, content], in the      *)
(* order the directory keeps them; fs maps directory names to directories. *)
Position(dir, name) ==
    IF \E i \in 1..Len(dir) : dir[i].name = name
    THEN CHOOSE i \in 1..Len(dir) : dir[i].name = name
    ELSE 0

Exists(files, path) ==
    /\ DirOf(path) \in DOMAIN files
    /\ Position(files[DirOf(path)], NameOf(path)) > 0

ContentAt(files, path) ==
    files[DirOf(path)][Position(files[DirOf(path)], NameOf(path))].content

(* os.listdir(folder): the names of the entries, in directory order        *)
listdir(files, folder) ==
    LET dir == files[DirOf(join(folder, <<>>))]
    IN  [i \in 1..Len(dir) |-> dir[i].name]

(* The content of a raw file is [kind |-> "text", rows |-> its lines], or  *)
(* kind "malformed" when read_csv or to_datetime raises on it; the content *)
(* of an output file is kind "csv" with the header and the rows.           *)
Text(rows) == [kind |-> "text", header |-> <<>>, rows |-> rows]

Malformed == [kind |-> "malformed", header |-> <<>>, rows |-> <<>>]

(* DataFrame.to_csv(path, index=False): the file at path is created or     *)
(* truncated, then the header and the rows are written.                    *)
to_csv_append(files, path, d) ==
    LET dir == files[DirOf(path)]
        at  == Position(dir, NameOf(path))
    IN  [files EXCEPT ![DirOf(path)] =
            IF at > 0
            THEN [dir EXCEPT ![at].content =
                    [kind |-> "csv", header |-> d.columns,
                     rows |-> dir[at].content.rows \o d.rows]]
            ELSE Append(dir, [name |-> NameOf(path),
                              content |-> [kind |-> "csv", header |-> d.columns,
                                           rows |-> d.rows]])]
to_csv(files, path, d) ==
    LET dir   == files[DirOf(path)]
        at    == Position(dir, NameOf(path))
        entry == [name    |-> NameOf(path),
                  content |-> [kind |-> "csv", header |-> d.columns,
                               rows |-> d.rows]]
    IN  [files EXCEPT ![DirOf(path)] =
            IF at > 0 THEN [dir EXCEPT ![at] = entry] ELSE Append(dir, entry)]

-----------------------------------------------------------------------------
(* clean_data and process_files.                                           *)

(* clean_data raises: the file file_path + '.txt' is missing or malformed. *)
clean_data_raises(files, file_path) ==
    IF Exists(files, file_path \o TXT)
    THEN ContentAt(files, file_path \o TXT).kind # "text"
    ELSE TRUE

(* clean_data(file_path, selected_columns, destination_path) when it does  *)
(* not raise: the file system it leaves.  resample_data is called without  *)
(* a frequency, so with its default.                                       *)
clean_data(files, file_path, columns, destination_path) ==
    LET d1 == read_and_preprocess(ContentAt(files, file_path \o TXT).rows,
                                  columns)
        d2 == aggregate_data(d1)
        d3 == resample_data(d2, DefaultFrequency)
    IN  to_csv(files, destination_path \o CSV, d3)

(* process_files, line 124: the entries of the source folder that end in   *)
(* '.txt', in directory order.                                             *)
list_txt_files(files, folder) ==
    SelectSeq(listdir(files, folder), LAMBDA file : endswith(file, TXT))

(* process_files, lines 126-127: the arguments of the call of clean_data   *)
base_name == splitext(file_list[idx])[1]

arg_file_path == join(source_folder, base_name)

arg_destination_path == join(destination_folder, CLEANED \o base_name)

ListFiles ==
    /\ pc = "start"
    /\ file_list' = list_txt_files(fs, source_folder)
    /\ idx' = 1
    /\ pc' = "loop"
    /\ UNCHANGED <<fs, source_folder, destination_folder, printed, trace, run,
                   after_first, selected_columns, frequency, pipelineVars>>

CleanFile ==
    /\ pc = "loop"
    /\ idx <= Len(file_list)
    /\ ~clean_data_raises(fs, arg_file_path)
    /\ fs' = clean_data(fs, arg_file_path, selected_columns,
                      arg_destination_path)
    /\ trace' = Append(trace, [file_name |-> file_list[idx],
                               read      |-> arg_file_path \o TXT,
                               written   |-> arg_destination_path \o CSV])
    /\ pc' = "print"
    /\ UNCHANGED <<source_folder, destination_folder, file_list, idx, printed,
                   run, after_first, selected_columns, frequency, pipelineVars>>

(* The exception of clean_data is not caught: it ends process_files.       *)
CleanFileRaises ==
    /\ pc = "loop"
    /\ idx <= Len(file_list)
    /\ clean_data_raises(fs, arg_file_path)
    /\ pc' = "raised"
    /\ UNCHANGED <<fs, source_folder, destination_folder, file_list, idx,
                   printed, trace, run, after_first, selected_columns,
                   frequency, pipelineVars>>

PrintFinished ==
    /\ pc = "print"
    /\ printed' = Append(printed,
                         destination_folder \o CLEANED \o base_name \o CSV
                             \o FINISHED)
    /\ idx' = idx + 1
    /\ pc' = "loop"
    /\ UNCHANGED <<fs, source_folder, destination_folder, file_list, trace,
                   run, after_first, selected_columns, frequency, pipelineVars>>

EndOfList ==
    /\ pc = "loop"
    /\ idx > Len(file_list)
    /\ pc' = "done"
    /\ UNCHANGED <<fs, source_folder, destination_folder, file_list, idx,
                   printed, trace, run, after_first, selected_columns,
                   frequency, pipelineVars>>

(* The caller runs process_files a second time with the same arguments.    *)
RunAgain ==
    /\ pc \in {"done", "raised"}
    /\ run = 1
    /\ after_first' = fs
    /\ run' = 2
    /\ pc' = "start"
    /\ file_list' = <<>>
    /\ idx' = 0
    /\ printed' = <<>>
    /\ trace' = <<>>
    /\ UNCHANGED <<fs, source_folder, destination_folder, selected_columns,
                   frequency, pipelineVars>>

-----------------------------------------------------------------------------
(* Spec: process_files over every small source directory.                  *)

TableA ==
    <<RawRow(<<7>>, <<T1005>>, <<4>>), RawRow(<<7>>, <<T1040>>, <<6>>)>>

TableB == <<RawRow(<<8>>, <<NextDay0010>>, <<4>>)>>

FileNames ==
    {<<"a">> \o TXT, <<"b">> \o TXT, TXT, TXT \o TXT, <<"a">> \o CSV}

FileContents == {Text(TableA), Text(TableB), Malformed}

SourceDir == <<"i", "n">>

DestinationDir == <<"o", "u", "t">>

(* Every directory of at most MaxFiles entries with distinct names.        *)
Directories ==
    {dir \in SeqsUpTo([name : FileNames, content : FileContents], MaxFiles) :
        \A i, j \in 1..Len(dir) : dir[i].name = dir[j].name => i = j}

Init ==
    /\ \E dir \in Directories :
          fs = [d \in {SourceDir, DestinationDir} |->
                   IF d = SourceDir THEN dir ELSE <<>>]
    /\ source_folder \in {SourceDir, SourceDir \o <<sep>>}
    /\ destination_folder \in {DestinationDir, DestinationDir \o <<sep>>,
                               SourceDir \o <<sep>>}
    /\ selected_columns = <<"square_id", "time_interval", "internet_traffic">>
    /\ frequency \in {Hour, Minutes30}
    /\ file_list = <<>>
    /\ idx = 0
    /\ pc = "start"
    /\ printed = <<>>
    /\ trace = <<>>
    /\ run = 1
    /\ after_first = <<>>
    /\ raw = <<>>
    /\ df = <<>>
    /\ stage = "idle"

Next ==
    \/ ListFiles
    \/ CleanFile
    \/ CleanFileRaises
    \/ PrintFinished
    \/ EndOfList
    \/ RunAgain

Spec == Init /\ [][Next]_vars

-----------------------------------------------------------------------------
(* The claims about the directory driver.                                  *)

Finished == pc \in {"done", "raised"}

(* The path process_files hands to the loader for file_list[k].            *)
PathRead(k) == join(source_folder, splitext(file_list[k])[1]) \o TXT

(* The name of a source file without its '.txt'.                           *)
Stem(file_name) == SubSeq(file_name, 1, Len(file_name) - Len(TXT))

(* The path a completion signal names.                                     *)
NamedPath(message) == SubSeq(message, 1, Len(message) - Len(FINISHED))

(* C1: when a run over files that fail, if at all, by being malformed is   *)
(* over, every well-formed file of the list has been read, transformed and *)
(* written, whichever other files failed.                                  *)
C1_FailureIsolation ==
    (Finished /\ \A k \in 1..Len(file_list) : Exists(fs, PathRead(k))) =>
        \A k \in 1..Len(file_list) :
            ContentAt(fs, PathRead(k)).kind = "text"
            => \E i \in 1..Len(trace) : trace[i].file_name = file_list[k]

(* C6: after a run in which no file failed, every source file ending in    *)
(* '.txt' was read at its own path and written to 'cleaned-' + its name    *)
(* without '.txt' + '.csv' in the destination directory, and no two files  *)
(* were written to one output.                                             *)
C6_OneOutputPerInput ==
    pc = "done" =>
        /\ Range(file_list)
               = {n \in Range(listdir(fs, source_folder)) : endswith(n, TXT)}
        /\ Len(trace) = Len(file_list)
        /\ \A k \in 1..Len(trace) :
              /\ trace[k].file_name = file_list[k]
              /\ trace[k].read = join(source_folder, file_list[k])
              /\ trace[k].written
                     = join(destination_folder,
                            CLEANED \o Stem(file_list[k]) \o CSV)
        /\ \A j, k \in 1..Len(trace) :
              trace[j].written = trace[k].written => j = k

(* C8: a completion signal comes only after its file is written, names the *)
(* path that was written, and the next file is not begun before it.        *)
C8_SignalNamesWrittenFile ==
    /\ Len(printed) <= Len(trace)
    /\ Len(trace) <= Len(printed) + 1
    /\ \A k \in 1..Len(printed) :
          /\ DirOf(NamedPath(printed[k])) = DirOf(trace[k].written)
          /\ NameOf(NamedPath(printed[k])) = NameOf(trace[k].written)
          /\ Exists(fs, NamedPath(printed[k]))

(* C9: every row (s, b, v) of every output written by a run configured     *)
(* with frequency f is a bucket of width f: b is a multiple of f and v is  *)
(* the traffic of s in the source file over b <= t < b + f.                *)
C9_ConfiguredFrequency ==
    \A k \in 1..Len(trace) :
        LET out == ContentAt(fs, trace[k].written).rows
            src == ContentAt(fs, trace[k].read).rows
        IN  \A i \in 1..Len(out) :
                LET b == TimestampValue(out[i].time_interval)
                IN  /\ b % frequency = 0
                    /\ out[i].internet_traffic
                           = RawSumIn(src, out[i].square_id, b, frequency)

(* C10: when the second run is over, every directory is as the first run   *)
(* left it.                                                                *)
C10_Idempotent ==
    (run = 2 /\ Finished) => fs = after_first

(* C10 witness: a second run that wrote two outputs over those of the      *)
(* first run.                                                              *)
C10_Witness ==
    /\ run = 2
    /\ pc = "done"
    /\ Len(trace) = 2
    /\ trace[1].written # trace[2].written
    /\ fs = after_first

=============================================================================
